---- MODULE Spec2Model ----
(***************************************************************************)
(* Model of py-mcp-client: the MCP session adapter (mcp_client.py).        *)
(*                                                                         *)
(* The adapter's state is the three mutable fields of MCPClient            *)
(* (initialized, session_id, tools).  Every public method is one action;   *)
(* the server's answer to each request the method sends is an input of     *)
(* the action.  A method is a pure operator from the state before the      *)
(* call and the responses to the state after it, the value returned or     *)
(* the exception raised, and the requests put on the wire.                 *)
(*                                                                         *)
(* JSON values are records of one uniform shape: a JSON object carries     *)
(* the set of keys that are present ("keys") and a value for every key it  *)
(* could have; the value of an absent key is a filler that no operator     *)
(* reads without first testing "keys".                                     *)
(***************************************************************************)
EXTENDS Integers, Sequences, FiniteSets, TLC

VARIABLES initialized, session_id, tools, last, transitions

\* OllamaClient: self.backend, the tools argument of the calls, what the
\* backend answers, the outcome of the most recent call and the generator a
\* streaming call returned
VARIABLES backend, offered, answer, reply, gen

mcpVars == <<initialized, session_id, tools, last, transitions>>
ollamaVars == <<backend, offered, answer, reply, gen>>
vars == <<initialized, session_id, tools, last, transitions,
          backend, offered, answer, reply, gen>>

---------------------------------------------------------------------------
(* Bounds *)

\* longest "tools" array in a tools/list result
MaxTools == 2
\* longest "content" array in a tools/call result
MaxContent == 2
\* most `data: ` lines in one SSE body
MaxDataLines == 2

---------------------------------------------------------------------------
(* Values *)

\* no mcp-session-id header
NoSid == "none"
\* the uuid4 generated by the constructor
LocalSid == "uuid4"
ServerSids == {"srv1", "srv2"}

ToolNames == {"search", "fetch"}
\* the tool_name arguments tried; call_tool() only copies the name into the request
CallNames == {"search"}
Descriptions == {"d1", "d2"}
Texts == {"t1", "t2"}
Messages == {"boom"}

SeqsUpTo(S, n) == UNION {[1..k -> S] : k \in 0..n}

---------------------------------------------------------------------------
(* JSON values the server can put in a body *)

\* an entry of result["tools"]
ToolData(ks, n, d) == [keys |-> ks, name |-> n, description |-> d, inputSchema |-> "schema"]
AllToolKeys == {"name", "description", "inputSchema"}
ToolEntries ==
    {ToolData(AllToolKeys, "search", d) : d \in Descriptions}
        \cup {ToolData(AllToolKeys, "fetch", "d1")}
        \cup {ToolData({"description", "inputSchema"}, "", "d1")}

\* an entry of result["content"]
ContentItem(ks, t) == [keys |-> ks, text |-> t]
ContentItems == {ContentItem({"type", "text"}, t) : t \in Texts} \cup {ContentItem({"type"}, "")}

\* the "result" member
ResultObj(ks, tl, ie, c) == [keys |-> ks, tools |-> tl, isError |-> ie, content |-> c]
EmptyResult == ResultObj({}, <<>>, FALSE, <<>>)

\* the "error" member
ErrorObj(ks, m) == [keys |-> ks, message |-> m]
NoError == ErrorObj({}, "")
ErrorObjs == {ErrorObj({"code", "message"}, m) : m \in Messages} \cup {ErrorObj({"code"}, "")}

\* a decoded JSON value: a JSON-RPC envelope, or a JSON value that is not an object
Envelope(ks, e, r) == [kind |-> "object", keys |-> ks, error |-> e, result |-> r]
JsonNumber == [kind |-> "number", keys |-> {}, error |-> NoError, result |-> EmptyResult]
OkEnvelope(r) == Envelope({"jsonrpc", "id", "result"}, NoError, r)
ErrEnvelope(e) == Envelope({"jsonrpc", "id", "error"}, e, EmptyResult)
BareEnvelope == Envelope({"jsonrpc", "id"}, NoError, EmptyResult)

\* a JSON text: the text of a value, or text that does not parse
JsonText(v) == [valid |-> TRUE, value |-> v]
Garbage == [valid |-> FALSE, value |-> JsonNumber]

ErrorTexts == {JsonText(ErrEnvelope(e)) : e \in ErrorObjs}
CommonTexts == ErrorTexts \cup {JsonText(BareEnvelope), JsonText(JsonNumber), Garbage}

HandshakeTexts ==
    {JsonText(OkEnvelope(EmptyResult)), JsonText(ErrEnvelope(ErrorObj({"code", "message"}, "boom"))),
     JsonText(JsonNumber), Garbage}

ListResults ==
    {ResultObj({"tools"}, tl, FALSE, <<>>) : tl \in SeqsUpTo(ToolEntries, MaxTools)}
        \cup {EmptyResult}
ListTexts == {JsonText(OkEnvelope(r)) : r \in ListResults} \cup CommonTexts

\* content lists: call_tool() reads the first item only, so the items after it
\* are all the "t2" item, which tells the first item from the later ones
ContentLists ==
    {<<>>} \cup {<<c>> \o [k \in 1..n |-> ContentItem({"type", "text"}, "t2")] :
                    c \in ContentItems, n \in 0..(MaxContent - 1)}
CallResults ==
    {r \in {ResultObj(ks, <<>>, ie, c) :
                ks \in SUBSET {"isError", "content"},
                ie \in BOOLEAN, c \in ContentLists} :
        /\ "isError" \notin r.keys => ~r.isError
        /\ "content" \notin r.keys => r.content = <<>>}
CallTexts == {JsonText(OkEnvelope(r)) : r \in CallResults} \cup CommonTexts

\* what a later data line of a multi-line SSE body may hold
FollowerTexts ==
    {JsonText(OkEnvelope(EmptyResult)), JsonText(ErrEnvelope(ErrorObj({"code", "message"}, "boom")))}

---------------------------------------------------------------------------
(* Response bodies: a body is the sequence of its lines (split on "\n") *)

EventLine == [kind |-> "event", payload |-> Garbage]
BlankLine == [kind |-> "blank", payload |-> Garbage]
DataLine(p) == [kind |-> "data", payload |-> p]
TextLine(p) == [kind |-> "text", payload |-> p]

PlainBody(p) == <<TextLine(p)>>
\* "event: message\ndata: <p>"
SSEBody(p) == <<EventLine, DataLine(p)>>

RECURSIVE DataLinesOf(_)
DataLinesOf(ps) == IF ps = <<>> THEN <<>> ELSE <<DataLine(Head(ps))>> \o DataLinesOf(Tail(ps))

\* the bodies over the JSON texts P; M holds the first data lines of the
\* bodies with several data lines or a trailing newline
Bodies(P, M) ==
    {PlainBody(p) : p \in P}
        \cup {SSEBody(p) : p \in P}
        \cup {SSEBody(p) \o <<BlankLine>> : p \in M}
        \cup {SSEBody(p) \o DataLinesOf(fs) :
                p \in M, fs \in SeqsUpTo(FollowerTexts, MaxDataLines - 1) \ {<<>>}}
        \cup {<<EventLine, BlankLine>>}
        \cup {<<DataLine(p)>> : p \in FollowerTexts}

NoResponse == [status |-> "none", sid |-> NoSid, body |-> <<>>]
Response(s, h, b) == [status |-> s, sid |-> h, body |-> b]

Responses(P, M, H) ==
    {Response("transport_error", NoSid, <<>>), Response("http_error", "srv1", <<>>)}
        \cup {Response("ok", h, b) : h \in H, b \in Bodies(P, M)}

HandshakeResponses == Responses(HandshakeTexts, HandshakeTexts, ServerSids \cup {NoSid})
\* the handshake answers tried when list_tools() or call_tool() initializes lazily
LazyHandshakeResponses ==
    {Response("transport_error", NoSid, <<>>),
     Response("ok", "srv1", PlainBody(JsonText(OkEnvelope(EmptyResult)))),
     Response("ok", NoSid, SSEBody(JsonText(OkEnvelope(EmptyResult)))),
     Response("ok", "srv1", SSEBody(JsonText(ErrEnvelope(ErrorObj({"code", "message"}, "boom")))))}
ListResponses ==
    Responses(ListTexts,
              FollowerTexts \cup {JsonText(OkEnvelope(ResultObj({"tools"},
                    <<ToolData(AllToolKeys, "search", "d1")>>, FALSE, <<>>)))},
              {NoSid})
\* the tools/list answers tried when a formatting helper fetches the catalog
HelperListResponses ==
    {Response("transport_error", NoSid, <<>>),
     Response("ok", NoSid, PlainBody(JsonText(OkEnvelope(EmptyResult)))),
     Response("ok", NoSid, PlainBody(JsonText(OkEnvelope(ResultObj({"tools"},
            <<ToolData(AllToolKeys, "search", "d1"), ToolData(AllToolKeys, "fetch", "d1")>>,
            FALSE, <<>>))))),
     Response("ok", NoSid, SSEBody(JsonText(OkEnvelope(ResultObj({"tools"},
            <<ToolData(AllToolKeys, "search", "d2")>>, FALSE, <<>>))))),
     Response("ok", NoSid, PlainBody(JsonText(ErrEnvelope(ErrorObj({"code", "message"}, "boom")))))}
CallResponses ==
    Responses(CallTexts,
              FollowerTexts \cup {JsonText(OkEnvelope(ResultObj({"content"}, <<>>, FALSE,
                    <<ContentItem({"type", "text"}, "t1")>>)))},
              {NoSid})

---------------------------------------------------------------------------
(* Python helpers *)

\* the exceptions httpx raises for a failed exchange all derive from httpx.HTTPError
HTTPError == "HTTPError"
NoExc == "none"

\* json.loads(text)
json_loads(p) ==
    IF p.valid THEN [exc |-> NoExc, data |-> p.value]
    ELSE [exc |-> "JSONDecodeError", data |-> JsonNumber]

\* a marker test that never matches, as with a misspelt "event:message"
startswith_event_never(body) == FALSE

\* response_text.startswith("event: message")
startswith_event(body) == Len(body) > 0 /\ body[1].kind = "event"

\* line.startswith('data: ') over response_text.split('\n')
data_lines(body) == SelectSeq(body, LAMBDA l : l.kind = "data")

\* response.json(): the whole body is one JSON text (surrounding whitespace allowed)
response_json(body) ==
    LET nonblank == SelectSeq(body, LAMBDA l : l.kind # "blank")
    IN  IF Len(nonblank) = 1 /\ nonblank[1].kind = "text"
        THEN json_loads(nonblank[1].payload)
        ELSE [exc |-> "JSONDecodeError", data |-> JsonNumber]

\* client.post(...) followed by response.raise_for_status()
post(resp) ==
    IF resp.status = "ok" THEN NoExc ELSE HTTPError

\* tools: Dict[str, MCPTool], an insertion-ordered dict
dict_keys(d) == {d[i].key : i \in 1..Len(d)}
\* self.tools[key] = value
dict_set(d, k, v) ==
    IF k \in dict_keys(d)
    THEN [i \in 1..Len(d) |-> IF d[i].key = k THEN [key |-> k, value |-> v] ELSE d[i]]
    ELSE Append(d, [key |-> k, value |-> v])

\* requests on the wire
\* requests that would carry the identifier made by the constructor
Request_constructor_sid(m, h, n) ==
    [method |-> m, sid |-> IF m = "initialize" THEN h ELSE LocalSid, name |-> n]

Request(m, h, n) == [method |-> m, sid |-> h, name |-> n]

---------------------------------------------------------------------------
(* MCPClient *)

\* @dataclass MCPTool
MCPTool(n, d, sch) == [name |-> n, description |-> d, input_schema |-> sch]

\* the dict call_tool returns
CallSuccess(t) == [keys |-> {"success", "result"}, success |-> TRUE, result |-> t, error |-> ""]
CallFailure(m) == [keys |-> {"success", "error"}, success |-> FALSE, result |-> "", error |-> m]
NoResult == [keys |-> {}, success |-> FALSE, result |-> "", error |-> ""]

NoOutput == "Tool executed successfully (no output)"
UnknownError == "Unknown error"
InitFailed == "Failed to initialize MCP session"

\* the fields of an MCPClient
State(i, sid, t) == [initialized |-> i, session_id |-> sid, tools |-> t]

\* what a call leaves behind: the state after it, the exception that left it
\* (NoExc when it returned), the value returned (ok: initialize's bool,
\* list: list_tools' list, result: call_tool's dict) and the requests it sent
Outcome(st, e, b, l, d, rq) ==
    [initialized |-> st.initialized, session_id |-> st.session_id, tools |-> st.tools,
     exc |-> e, ok |-> b, list |-> l, result |-> d, reqs |-> rq]
StateOf(o) == State(o.initialized, o.session_id, o.tools)

\* the loop of initialize() over the lines of an SSE body: every data line is
\* decoded in turn until one holds no "error" key
RECURSIVE handshake_scan(_)
handshake_scan(lines) ==
    IF lines = <<>> THEN "fail"
    ELSE LET line == Head(lines)
             j == json_loads(line.payload)
         IN  IF line.kind # "data" THEN handshake_scan(Tail(lines))
             ELSE IF j.exc # NoExc THEN "raise"
             ELSE IF j.data.kind # "object" THEN "raise"
             ELSE IF "error" \notin j.data.keys THEN "ok"
             ELSE handshake_scan(Tail(lines))

\* the else branch of initialize(): the body is decoded as a whole
handshake_plain(body) ==
    LET j == response_json(body)
    IN  IF j.exc # NoExc THEN "raise"
        ELSE IF j.data.kind # "object" THEN "raise"
        ELSE IF "error" \notin j.data.keys THEN "ok"
        ELSE "fail"

\* the try block of initialize()
handshake(st, hr) ==
    LET req == <<Request("initialize", NoSid, "")>>
        st1 == IF hr.sid # NoSid THEN [st EXCEPT !.session_id = hr.sid] ELSE st
        verdict == IF startswith_event(hr.body)
                   THEN handshake_scan(hr.body)
                   ELSE handshake_plain(hr.body)
    IN  IF post(hr) # NoExc
        THEN Outcome(st, NoExc, FALSE, <<>>, NoResult, req)
        ELSE IF verdict = "ok"
        THEN Outcome([st1 EXCEPT !.initialized = TRUE], NoExc, TRUE, <<>>, NoResult, req)
        ELSE Outcome(st1, NoExc, FALSE, <<>>, NoResult, req)

\* initialize() with `return True` on the failure path
initialize_reports_true(st, hr) ==
    IF st.initialized
    THEN Outcome(st, NoExc, TRUE, <<>>, NoResult, <<>>)
    ELSE [handshake(st, hr) EXCEPT !.ok = TRUE]

\* initialize() without the `if self.initialized: return True` guard
initialize_no_guard(st, hr) == handshake(st, hr)

initialize(st, hr) ==
    IF st.initialized
    THEN Outcome(st, NoExc, TRUE, <<>>, NoResult, <<>>)
    ELSE handshake(st, hr)

\* the first data line of an SSE body; `data` stays unbound without one
first_data_line(body) ==
    LET ds == data_lines(body)
    IN  IF ds = <<>> THEN [exc |-> "UnboundLocalError", data |-> JsonNumber]
        ELSE json_loads(ds[1].payload)

\* a decoding that would drop the "error" member of the envelope
list_tools_data_drops_error(body) ==
    LET d == IF startswith_event(body) THEN first_data_line(body) ELSE response_json(body)
    IN  IF d.exc = NoExc /\ d.data.kind = "object" /\ "error" \in d.data.keys
        THEN [d EXCEPT !.data = BareEnvelope] ELSE d

list_tools_data(body) ==
    IF startswith_event(body) THEN first_data_line(body) ELSE response_json(body)

call_tool_data(body) ==
    IF startswith_event(body) THEN first_data_line(body) ELSE response_json(body)

\* the loop of list_tools() over result["tools"]
RECURSIVE load_tools(_, _, _)
load_tools(items, acc, cat) ==
    IF items = <<>> THEN [exc |-> NoExc, list |-> acc, tools |-> cat]
    ELSE LET td == Head(items)
             tool == MCPTool(td.name, td.description, td.inputSchema)
         IN  IF ~(AllToolKeys \subseteq td.keys)
             THEN [exc |-> "KeyError", list |-> acc, tools |-> cat]
             ELSE load_tools(Tail(items), Append(acc, tool), dict_set(cat, tool.name, tool))

list_tools(st, hr, r) ==
    LET i == IF st.initialized THEN Outcome(st, NoExc, TRUE, <<>>, NoResult, <<>>)
             ELSE initialize(st, hr)
        s == StateOf(i)
        reqs == i.reqs \o <<Request("tools/list", s.session_id, "")>>
        raise(e) == Outcome(s, e, FALSE, <<>>, NoResult, reqs)
        d == list_tools_data(r.body)
        result == IF "result" \in d.data.keys THEN d.data.result ELSE EmptyResult
        items == IF "tools" \in result.keys THEN result.tools ELSE <<>>
        l == load_tools(items, <<>>, s.tools)
    IN  IF ~i.ok THEN Outcome(s, "Exception", FALSE, <<>>, NoResult, i.reqs)
        ELSE IF post(r) # NoExc THEN raise(HTTPError)
        ELSE IF d.exc # NoExc THEN raise(d.exc)
        ELSE IF d.data.kind # "object" THEN raise("TypeError")
        ELSE IF "error" \in d.data.keys THEN raise("Exception")
        ELSE IF l.exc # NoExc
        THEN Outcome([s EXCEPT !.tools = l.tools], l.exc, FALSE, <<>>, NoResult, reqs)
        ELSE Outcome([s EXCEPT !.tools = l.tools], NoExc, FALSE, l.list, NoResult, reqs)

\* call_tool() treating an empty content list as a failure
tool_result_empty_fails(result) ==
    LET content == IF "content" \in result.keys THEN result.content ELSE <<>>
        first == IF content # <<>> THEN content[1] ELSE ContentItem({}, "")
        text(default) == IF "text" \in first.keys THEN first.text ELSE default
    IN  IF "isError" \in result.keys /\ result.isError
        THEN [exc |-> NoExc, value |-> CallFailure(text(UnknownError))]
        ELSE IF content # <<>>
        THEN [exc |-> NoExc, value |-> CallSuccess(text(""))]
        ELSE [exc |-> NoExc, value |-> CallFailure(NoOutput)]

\* call_tool() on the "result" member of a response without "error"
tool_result(result) ==
    LET \* result.get("content", [{}])
        econtent == IF "content" \in result.keys THEN result.content
                    ELSE <<ContentItem({}, "")>>
        \* result.get("content", [])
        content == IF "content" \in result.keys THEN result.content ELSE <<>>
        text(item, default) == IF "text" \in item.keys THEN item.text ELSE default
    IN  IF "isError" \in result.keys /\ result.isError
        THEN IF econtent = <<>> THEN [exc |-> "IndexError", value |-> NoResult]
             ELSE [exc |-> NoExc, value |-> CallFailure(text(econtent[1], UnknownError))]
        ELSE IF content # <<>>
        THEN [exc |-> NoExc, value |-> CallSuccess(text(content[1], ""))]
        ELSE [exc |-> NoExc, value |-> CallSuccess(NoOutput)]

call_tool(st, hr, r, tool_name) ==
    LET i == IF st.initialized THEN Outcome(st, NoExc, TRUE, <<>>, NoResult, <<>>)
             ELSE initialize(st, hr)
        s == StateOf(i)
        reqs == i.reqs \o <<Request("tools/call", s.session_id, tool_name)>>
        raise(e) == Outcome(s, e, FALSE, <<>>, NoResult, reqs)
        return(v) == Outcome(s, NoExc, FALSE, <<>>, v, reqs)
        d == call_tool_data(r.body)
        err == d.data.error
        result == IF "result" \in d.data.keys THEN d.data.result ELSE EmptyResult
        t == tool_result(result)
    IN  IF ~i.ok THEN Outcome(s, NoExc, FALSE, <<>>, CallFailure(InitFailed), i.reqs)
        ELSE IF post(r) # NoExc THEN return(CallFailure(HTTPError))
        ELSE IF d.exc # NoExc THEN raise(d.exc)
        ELSE IF d.data.kind # "object" THEN raise("TypeError")
        ELSE IF "error" \in d.data.keys
        THEN return(CallFailure(IF "message" \in err.keys THEN err.message ELSE UnknownError))
        ELSE IF t.exc # NoExc THEN raise(t.exc)
        ELSE return(t.value)

---------------------------------------------------------------------------
(* MCPClient formatting helpers *)

\* self.tools.values()
dict_values(d) == [i \in 1..Len(d) |-> d[i].value]

\* One entry of get_tool_descriptions().  The parameter listing is rendered
\* from the schema's properties; the schema is opaque here, so the listing is
\* represented by the schema it is rendered from.
ToolDescription(tool) ==
    [name |-> tool.name, description |-> tool.description, parameters |-> tool.input_schema]
\* One entry of format_tools_for_ollama()
OllamaTool(tool) ==
    [type |-> "function",
     function |-> [name |-> tool.name, description |-> tool.description,
                   parameters |-> tool.input_schema]]

get_tool_descriptions(st) ==
    LET vs == dict_values(st.tools)
    IN  Outcome(st, NoExc, FALSE, [i \in 1..Len(vs) |-> ToolDescription(vs[i])], NoResult, <<>>)

\* The prompt text is a header, one block per entry of get_tool_descriptions()
\* and the fixed instructions; it is represented by those entries.
format_tools_for_prompt(st, hr, r) ==
    LET f == IF st.tools = <<>> THEN list_tools(st, hr, r)
             ELSE Outcome(st, NoExc, FALSE, <<>>, NoResult, <<>>)
    IN  IF f.exc # NoExc THEN f
        ELSE [f EXCEPT !.list = get_tool_descriptions(StateOf(f)).list]

format_tools_for_ollama(st, hr, r) ==
    LET f == IF st.tools = <<>> THEN list_tools(st, hr, r)
             ELSE Outcome(st, NoExc, FALSE, <<>>, NoResult, <<>>)
        vs == dict_values(f.tools)
    IN  IF f.exc # NoExc THEN f
        ELSE [f EXCEPT !.list = [i \in 1..Len(vs) |-> OllamaTool(vs[i])]]

---------------------------------------------------------------------------
(* MCPClient.health_check *)

\* the JSON values a health endpoint answers with: an object with or without a
\* "status" member, or a value that is not an object
HealthJson(k, ks, st) == [kind |-> k, keys |-> ks, status |-> st]
HealthTexts ==
    {JsonText(HealthJson("object", {"status"}, st)) : st \in {"healthy", "ok", "degraded"}}
    \cup {JsonText(HealthJson("object", {}, "")), JsonText(HealthJson("array", {}, "")), Garbage}

\* 200, another 2xx status, a 4xx/5xx status, or no response at all
HealthResponses ==
    {Response(s, NoSid, PlainBody(p)) : s \in {"ok", "other_2xx"}, p \in HealthTexts}
    \cup {Response(s, NoSid, <<>>) : s \in {"ok", "other_2xx", "http_error", "transport_error"}}

\* the outer try block: client.get, raise_for_status, and the inner try whose
\* bare except answers with the status code
health_check_try(resp) ==
    LET d == response_json(resp.body)
        fallback == [exc |-> NoExc, ok |-> resp.status = "ok"]
    IN  IF resp.status \in {"transport_error", "http_error"}
        THEN [exc |-> HTTPError, ok |-> FALSE]
        ELSE IF d.exc # NoExc THEN fallback
        ELSE IF d.data.kind # "object" THEN fallback   \* AttributeError on .get
        ELSE [exc |-> NoExc,
              ok |-> "status" \in d.data.keys /\ d.data.status \in {"healthy", "ok"}]

health_check(st, resp) ==
    LET t == health_check_try(resp)
    IN  Outcome(st, NoExc, IF t.exc # NoExc THEN FALSE ELSE t.ok, <<>>, NoResult,
                <<Request("GET /healthz", NoSid, "")>>)

---------------------------------------------------------------------------
(* OllamaClient: values *)

MaxOffered == 2

\* JSON / Python values that occur as members of a model reply: a string, an
\* object (known by its keys) and None (also what .get answers for a missing
\* key).  The JSON text of an object is the string Str("json") with its keys.
Str(t) == [type |-> "str", text |-> t, keys |-> {}]
Dict(ks) == [type |-> "dict", text |-> "", keys |-> ks]
None == [type |-> "null", text |-> "", keys |-> {}]

\* Python truthiness
truthy(v) ==
    \/ v.type = "str" /\ v.text # ""
    \/ v.type = "dict" /\ v.keys # {}

\* json.dumps of a value that is not a string
json_dumps(v) ==
    IF v.type = "dict" THEN [type |-> "str", text |-> "json", keys |-> v.keys]
    ELSE Str("null")

\* x or y
or_(x, y) == IF truthy(x) THEN x ELSE y

\* the keys the heuristic reads, and the keys of tool parameters
NameKeys == {"tool", "name", "function"}
ArgKeys == {"arguments", "params"}
ParamKeys == {"q", "limit", "url"}

\* a parsed JSON object: its keys and the values of the keys the heuristic reads
Object(ks, t, n, f, a, p) ==
    [keys |-> ks, tool |-> t, name |-> n, function |-> f, arguments |-> a, params |-> p]
EmptyObject == Object({}, None, None, None, None, None)
\* an object with the single member k: v
Member(k, v) == [EmptyObject EXCEPT !.keys = {k}, ![k] = v]
\* the union of two objects with no common key
Merge(o1, o2) ==
    [k \in DOMAIN o1 |->
        IF k = "keys" THEN o1.keys \cup o2.keys
        ELSE IF k \in o1.keys THEN o1[k] ELSE o2[k]]
\* an object with only parameter keys
Bag(ks) == [EmptyObject EXCEPT !.keys = ks]
\* parsed.get(k)
dict_get(o, k) == IF k \in o.keys THEN o[k] ELSE None

ToolNameValues == {Str("search"), Str("delete"), Str("")}
ArgumentValues == {Dict({"q"}), Dict({}), Str("{q: x}"), Str("")}

\* {"tool": n, "arguments": a} under every alias of the two keys
ExplicitObjects ==
    {Merge(Member(nk, n), Member(ak, a)) :
        nk \in NameKeys, n \in ToolNameValues, ak \in ArgKeys, a \in ArgumentValues}
\* objects of parameters, objects with a tool name but no arguments, and one
\* with two tool-name aliases
OtherObjects ==
    {Bag(ks) : ks \in SUBSET ParamKeys}
    \cup {Merge(Member("tool", Str("search")), Bag(ks)) : ks \in {{}, {"q"}}}
    \cup {Merge(Member("name", Str("fetch")),
                Merge(Member("tool", Str("search")), Member("arguments", Dict({"url"}))))}
Objects == ExplicitObjects \cup OtherObjects

\* The content of a reply: absent (None), "", spaces only, prose, text that
\* opens with a brace but does not close with one, text in braces that is not
\* JSON, or the JSON text of an object; padded with white space or not.
Content(k, pad, o) == [kind |-> k, padded |-> pad, object |-> o]
NoContent == Content("none", FALSE, EmptyObject)
EmptyContent == Content("empty", FALSE, EmptyObject)
ObjectContents == {Content("object", pad, o) : pad \in BOOLEAN, o \in Objects}
OtherContents ==
    {NoContent, EmptyContent, Content("blank", TRUE, EmptyObject)}
    \cup {Content(k, pad, EmptyObject) :
            k \in {"prose", "open_brace", "braced_garbage"}, pad \in BOOLEAN}
Contents == ObjectContents \cup OtherContents

\* a tool in the function-calling format, with the names of its parameters
FunctionTool(n, ps) ==
    [type |-> "function",
     function |-> [name |-> Str(n), parameters |-> [properties |-> ps]]]
OfferableTools ==
    {FunctionTool("search", {"q", "limit"}), FunctionTool("fetch", {"url"}),
     FunctionTool("lookup", {"q"})}
\* the tools argument; <<>> stands for None and for []
ToolLists == SeqsUpTo(OfferableTools, MaxOffered)

\* a tool call; its id is "call_" and digits of a hash of the JSON text
ToolCall(n, a) ==
    [id |-> "call_hash", type |-> "function", function |-> [name |-> n, arguments |-> a]]
NoToolCall == [id |-> "", type |-> "none", function |-> [name |-> None, arguments |-> None]]

---------------------------------------------------------------------------
(* OllamaClient._parse_json_tool_call_from_content *)

\* not content
content_falsy(c) == c.kind \in {"none", "empty"}
\* content.strip()
strip(c) ==
    IF c.kind = "blank" THEN EmptyContent ELSE [c EXCEPT !.padded = FALSE]
\* content.startswith('{') and content.endswith('}')
braced(c) == ~c.padded /\ c.kind \in {"braced_garbage", "object"}
\* json.loads(content) of text in braces
content_loads(c) ==
    IF c.kind = "object" THEN [exc |-> NoExc, parsed |-> c.object]
    ELSE [exc |-> "JSONDecodeError", parsed |-> EmptyObject]

\* Strategy 2: the keys of the object that are properties of the tool
overlap(parsed, tool) == Cardinality(parsed.keys \cap tool.function.parameters.properties)

\* a loop in which a later tool with an equal score would replace the match
RECURSIVE best_match_last_wins(_, _, _, _)
best_match_last_wins(parsed, ts, best, score) ==
    IF ts = <<>> THEN [name |-> best, score |-> score]
    ELSE LET sc == overlap(parsed, Head(ts))
         IN  IF sc >= score
             THEN best_match_last_wins(parsed, Tail(ts), Head(ts).function.name, sc)
             ELSE best_match_last_wins(parsed, Tail(ts), best, score)

\* the loop over the tools: a tool replaces the best match only with a
\* strictly greater score
RECURSIVE best_match(_, _, _, _)
best_match(parsed, ts, best, score) ==
    IF ts = <<>> THEN [name |-> best, score |-> score]
    ELSE LET sc == overlap(parsed, Head(ts))
         IN  IF sc > score
             THEN best_match(parsed, Tail(ts), Head(ts).function.name, sc)
             ELSE best_match(parsed, Tail(ts), best, score)

\* the statements inside the try block
parse_try(c, ts) ==
    LET j == content_loads(c)
        parsed == j.parsed
        tool_name == or_(or_(dict_get(parsed, "tool"), dict_get(parsed, "name")),
                         dict_get(parsed, "function"))
        arguments == or_(dict_get(parsed, "arguments"), dict_get(parsed, "params"))
        m == best_match(parsed, ts, None, 0)
        return(v) == [exc |-> NoExc, call |-> v]
    IN  IF j.exc # NoExc THEN [exc |-> j.exc, call |-> NoToolCall]
        ELSE IF truthy(tool_name) /\ truthy(arguments)
             THEN return(ToolCall(tool_name,
                                  IF arguments.type = "str" THEN arguments
                                  ELSE json_dumps(arguments)))
        ELSE IF truthy(m.name) /\ m.score > 0
             THEN return(ToolCall(m.name, json_dumps(Dict(parsed.keys))))
        ELSE return(NoToolCall)

\* the method without its except clause
parse_without_except(content, ts) ==
    LET c == strip(content)
        none == [exc |-> NoExc, call |-> NoToolCall]
    IN  IF content_falsy(content) \/ ts = <<>> THEN none
        ELSE IF ~braced(c) THEN none
        ELSE parse_try(c, ts)

parse_json_tool_call_from_content(content, ts) ==
    LET c == strip(content)
        t == parse_try(c, ts)
        none == [exc |-> NoExc, call |-> NoToolCall]
    IN  IF content_falsy(content) \/ ts = <<>> THEN none
        ELSE IF ~braced(c) THEN none
        ELSE IF t.exc \in {"JSONDecodeError", "ValueError"} THEN none
        ELSE t

---------------------------------------------------------------------------
(* OllamaClient.chat *)

Backends == {"ollama", "vllm"}

\* the assistant message of a reply; tool_calls is <<>> when absent, null or []
Message(c, tc) == [role |-> "assistant", content |-> c, tool_calls |-> tc]
NoMessage == Message(NoContent, <<>>)
StructuredCalls == {<<>>, <<ToolCall(Str("search"), Str("{q: x}"))>>}
ReplyMessages == {Message(c, tc) : c \in Contents, tc \in StructuredCalls}

\* decoded response bodies: {"message": m, "done": true} of the native API
\* and {"choices": [{"message": m}]} of the OpenAI-compatible API
Choice(m) == [message |-> m]
NativeBody(m) ==
    [keys |-> {"message", "done"}, choices |-> <<>>, message |-> m, done |-> TRUE]
OpenAIBody(ch) ==
    [keys |-> {"choices"}, choices |-> ch, message |-> NoMessage, done |-> FALSE]
NoBody == [keys |-> {}, choices |-> <<>>, message |-> NoMessage, done |-> FALSE]

\* What the backend answers a call with: the status, whether the body is JSON
\* text, the decoded body of a plain answer and the lines of a streamed one.
Answer(k, s, v, b, ls) == [kind |-> k, status |-> s, valid |-> v, body |-> b, lines |-> ls]
NoAnswer == Answer("none", "none", FALSE, NoBody, <<>>)
FailedAnswers ==
    {Answer("reply", s, FALSE, NoBody, <<>>) : s \in {"ok", "http_error", "transport_error"}}
ChatAnswers(b) ==
    FailedAnswers \cup
    IF b = "ollama"
    THEN {Answer("reply", "ok", TRUE, NativeBody(m), <<>>) : m \in ReplyMessages}
    ELSE {Answer("reply", "ok", TRUE, OpenAIBody(<<Choice(m)>>), <<>>) : m \in ReplyMessages}
         \cup {Answer("reply", "ok", TRUE, OpenAIBody(<<>>), <<>>)}

\* the JSON payload of a request: its keys, its "stream" and "tools" members
Payload(ks, st, ts) ==
    [keys |-> IF ts # <<>> THEN ks \cup {"tools"} ELSE ks, stream |-> st, tools |-> ts]
ollama_payload(st, ts) == Payload({"model", "messages", "stream", "options"}, st, ts)
vllm_payload(st, ts) ==
    Payload({"model", "messages", "temperature", "max_tokens", "top_p", "stream"}, st, ts)
HttpRequest(path, payload) == [method |-> "POST", path |-> path, payload |-> payload]

\* what a call leaves behind: the exception that left it (NoExc when it
\* returned), the dict chat() returned, the value the heuristic returned and
\* the requests sent
Reply(op, e, b, c, rq) == [op |-> op, exc |-> e, body |-> b, call |-> c, reqs |-> rq]
NoReply == Reply("none", NoExc, NoBody, NoToolCall, <<>>)

\* client.post(...), raise_for_status() and response.json()
post_json(ans) ==
    IF ans.status # "ok" THEN [exc |-> HTTPError, body |-> NoBody]
    ELSE IF ~ans.valid THEN [exc |-> "JSONDecodeError", body |-> NoBody]
    ELSE [exc |-> NoExc, body |-> ans.body]

chat_ollama(ts, ans) ==
    LET rq == <<HttpRequest("/api/chat", ollama_payload(FALSE, ts))>>
        j == post_json(ans)
    IN  Reply("chat", j.exc, j.body, NoToolCall, rq)

\* a conversion that would keep the content next to the recovered call
recover_keeps_content(message, ts) ==
    LET p == parse_json_tool_call_from_content(message.content, ts)
    IN  IF ts # <<>> /\ message.tool_calls = <<>> /\ ~content_falsy(message.content)
           /\ p.call # NoToolCall
        THEN [exc |-> p.exc, message |-> Message(message.content, <<p.call>>)]
        ELSE [exc |-> NoExc, message |-> Message(message.content, message.tool_calls)]

\* the conversion of the first choice's message, with the recovery of a tool
\* call from the content
recover(message, ts) ==
    LET content == message.content
        tool_calls == message.tool_calls
        p == parse_json_tool_call_from_content(content, ts)
    IN  IF ts # <<>> /\ tool_calls = <<>> /\ ~content_falsy(content)
        THEN IF p.exc # NoExc THEN [exc |-> p.exc, message |-> NoMessage]
             ELSE IF p.call # NoToolCall
             THEN [exc |-> NoExc, message |-> Message(EmptyContent, <<p.call>>)]
             ELSE [exc |-> NoExc, message |-> Message(content, tool_calls)]
        ELSE [exc |-> NoExc, message |-> Message(content, tool_calls)]

chat_vllm(ts, ans) ==
    LET rq == <<HttpRequest("/v1/chat/completions", vllm_payload(FALSE, ts))>>
        j == post_json(ans)
        raise(e) == Reply("chat", e, NoBody, NoToolCall, rq)
        n == recover(j.body.choices[1].message, ts)
    IN  IF j.exc # NoExc THEN raise(j.exc)
        ELSE IF "choices" \notin j.body.keys THEN raise("KeyError")
        ELSE IF j.body.choices = <<>> THEN raise("IndexError")
        ELSE IF n.exc # NoExc THEN raise(n.exc)
        ELSE Reply("chat", NoExc, NativeBody(n.message), NoToolCall, rq)

\* chat(messages, stream=False, tools)
chat(b, ts, ans) == IF b = "ollama" THEN chat_ollama(ts, ans) ELSE chat_vllm(ts, ans)

---------------------------------------------------------------------------
(* OllamaClient streaming *)

MaxLines == 3

\* the lines of a streamed answer: two JSON texts, text that is not JSON, an
\* empty line, and the point at which reading the connection fails
StreamLines == {"chunk1", "chunk2", "garbage", "", "read_error"}
StreamAnswers ==
    {Answer("stream", "ok", TRUE, NoBody, ls) : ls \in SeqsUpTo(StreamLines, MaxLines)}
    \cup {Answer("stream", s, FALSE, NoBody, <<>>) : s \in {"http_error", "transport_error"}}

\* json.loads(line)
line_loads(line) ==
    IF line \in {"chunk1", "chunk2"} THEN [exc |-> NoExc, chunk |-> [decoded |-> line]]
    ELSE [exc |-> "JSONDecodeError", chunk |-> [decoded |-> ""]]

\* A generator: where it stands (created, suspended at the yield, finished,
\* raised, closed), the request it sends when first resumed, the requests
\* sent, the lines not yet read, the chunks yielded, the state of its
\* connection and the exception that ended it.
NoRequest == HttpRequest("", Payload({}, FALSE, <<>>))
Gen(pc, k, rq) ==
    [pc |-> pc, kind |-> k, req |-> rq, sent |-> <<>>, rest |-> <<>>, yielded |-> <<>>,
     conn |-> "none", exc |-> NoExc]
NoGen == Gen("none", "none", NoRequest)

\* _stream_chat(payload) and _stream_generate(payload): calling a generator
\* function runs none of its body
stream_chat(payload) == Gen("created", "chat", HttpRequest("/api/chat", payload))
stream_generate(payload) == Gen("created", "generate", HttpRequest("/api/generate", payload))

\* chat(messages, stream=True, tools)
chat_stream(b, ts) ==
    stream_chat(IF b = "ollama" THEN ollama_payload(TRUE, ts) ELSE vllm_payload(TRUE, ts))
\* generate(prompt, stream=True)
generate_stream == stream_generate(Payload({"model", "prompt", "stream", "options"}, TRUE, <<>>))

\* a loop in which a line that does not parse would end the stream
RECURSIVE stream_loop_breaks(_)
stream_loop_breaks(g) ==
    IF g.rest = <<>> THEN [g EXCEPT !.pc = "finished", !.conn = "closed"]
    ELSE LET line == Head(g.rest)
             g1 == [g EXCEPT !.rest = Tail(g.rest)]
             j == line_loads(line)
         IN  IF line = "read_error"
             THEN [g1 EXCEPT !.pc = "raised", !.conn = "closed", !.exc = HTTPError]
             ELSE IF line = "" THEN stream_loop_breaks(g1)
             ELSE IF j.exc = NoExc
             THEN [g1 EXCEPT !.pc = "suspended", !.yielded = Append(@, j.chunk)]
             ELSE [g1 EXCEPT !.pc = "finished", !.conn = "closed"]

\* the loop over response.iter_lines(), up to the next yield, the end of the
\* lines or a read error; leaving the with block releases the connection
RECURSIVE stream_loop(_)
stream_loop(g) ==
    IF g.rest = <<>> THEN [g EXCEPT !.pc = "finished", !.conn = "closed"]
    ELSE LET line == Head(g.rest)
             g1 == [g EXCEPT !.rest = Tail(g.rest)]
             j == line_loads(line)
         IN  IF line = "read_error"
             THEN [g1 EXCEPT !.pc = "raised", !.conn = "closed", !.exc = HTTPError]
             ELSE IF line = "" THEN stream_loop(g1)
             ELSE IF j.exc = NoExc
             THEN [g1 EXCEPT !.pc = "suspended", !.yielded = Append(@, j.chunk)]
             ELSE stream_loop(g1)

\* next(generator): the first resumption opens the connection
stream_next(g, ans) ==
    LET s == [g EXCEPT !.sent = Append(@, g.req)]
    IN  IF g.pc = "suspended" THEN stream_loop(g)
        ELSE IF ans.status = "transport_error"
        THEN [s EXCEPT !.pc = "raised", !.exc = HTTPError]
        ELSE IF ans.status # "ok"
        THEN [s EXCEPT !.pc = "raised", !.conn = "closed", !.exc = HTTPError]
        ELSE stream_loop([s EXCEPT !.conn = "open", !.rest = ans.lines])

\* a close() that would drop the generator without leaving the with block
stream_close_leaks(g) == [g EXCEPT !.pc = "closed"]

\* generator.close(): GeneratorExit at the yield leaves the with block
stream_close(g) ==
    IF g.pc = "suspended" THEN [g EXCEPT !.pc = "closed", !.conn = "closed"]
    ELSE [g EXCEPT !.pc = "closed"]

---------------------------------------------------------------------------
(* The adapter as a state machine *)

Self == State(initialized, session_id, tools)

\* `last` describes the most recent call: the method, its tool_name argument,
\* the responses it consumed (NoResponse for a request it did not send) and
\* its outcome.  `transitions` counts the Uninitialized -> Initialized steps.
Record(op, n, hr, r, o) ==
    LET sentInit == \E k \in 1..Len(o.reqs) : o.reqs[k].method = "initialize"
        sentOp == \E k \in 1..Len(o.reqs) : o.reqs[k].method # "initialize"
    IN  /\ initialized' = o.initialized
        /\ session_id' = o.session_id
        /\ tools' = o.tools
        /\ transitions' = IF ~initialized /\ o.initialized THEN transitions + 1 ELSE transitions
        /\ last' = [op |-> op, name |-> n,
                    hr |-> IF sentInit THEN hr ELSE NoResponse,
                    r |-> IF sentOp THEN r ELSE NoResponse,
                    exc |-> o.exc, ok |-> o.ok, list |-> o.list, result |-> o.result,
                    reqs |-> o.reqs]
        /\ UNCHANGED ollamaVars

NoCall ==
    [op |-> "none", name |-> "", hr |-> NoResponse, r |-> NoResponse,
     exc |-> NoExc, ok |-> FALSE, list |-> <<>>, result |-> NoResult, reqs |-> <<>>]

\* MCPClient.__init__
MCPClientInit ==
    /\ initialized = FALSE
    /\ session_id = LocalSid
    /\ tools = <<>>
    /\ transitions = 0
    /\ last = NoCall

\* no OllamaClient call is made
OllamaClientIdle ==
    /\ backend = "ollama"
    /\ offered = <<>>
    /\ answer = NoAnswer
    /\ reply = NoReply
    /\ gen = NoGen

Init == MCPClientInit /\ OllamaClientIdle

\* the handshake is answered only when it is sent
LazyHandshake == IF initialized THEN {NoResponse} ELSE LazyHandshakeResponses

Initialize ==
    \E hr \in (IF initialized THEN {NoResponse} ELSE HandshakeResponses) :
        Record("initialize", "", hr, NoResponse, initialize(Self, hr))

ListTools ==
    \E hr \in LazyHandshake, r \in ListResponses :
        Record("list_tools", "", hr, r, list_tools(Self, hr, r))

CallTool ==
    \E hr \in LazyHandshake, r \in CallResponses, n \in CallNames :
        Record("call_tool", n, hr, r, call_tool(Self, hr, r, n))

HealthCheck ==
    \E r \in HealthResponses :
        Record("health_check", "", NoResponse, r, health_check(Self, r))

GetToolDescriptions ==
    Record("get_tool_descriptions", "", NoResponse, NoResponse, get_tool_descriptions(Self))

\* the catalog is fetched, and answered, only when the cache is empty
FetchHandshake == IF tools = <<>> THEN LazyHandshake ELSE {NoResponse}
FetchResponses == IF tools = <<>> THEN HelperListResponses ELSE {NoResponse}

FormatToolsForPrompt ==
    \E hr \in FetchHandshake, r \in FetchResponses :
        Record("format_tools_for_prompt", "", hr, r, format_tools_for_prompt(Self, hr, r))

FormatToolsForOllama ==
    \E hr \in FetchHandshake, r \in FetchResponses :
        Record("format_tools_for_ollama", "", hr, r, format_tools_for_ollama(Self, hr, r))

Next ==
    \/ Initialize \/ ListTools \/ CallTool \/ HealthCheck
    \/ GetToolDescriptions \/ FormatToolsForPrompt \/ FormatToolsForOllama

Spec == Init /\ [][Next]_vars

---------------------------------------------------------------------------
(* The LLM client as a state machine *)

\* the tools offered with a streaming call only add a key to its payload
StreamToolLists == SeqsUpTo(OfferableTools, 1)

\* OllamaClient.__init__, with the tools the caller offers and the answer the
\* backend gives
OllamaInit ==
    /\ MCPClientInit
    /\ backend \in Backends
    /\ \/ offered \in ToolLists /\ answer \in ChatAnswers(backend)
       \/ offered \in StreamToolLists /\ answer \in StreamAnswers
    /\ reply = NoReply
    /\ gen = NoGen

\* a call is made when no generator is waiting to be resumed
Idle == gen.pc \notin {"created", "suspended"}

Chat ==
    /\ Idle
    /\ answer.kind = "reply"
    /\ reply' = chat(backend, offered, answer)
    /\ gen' = NoGen
    /\ UNCHANGED <<backend, offered, answer>>
    /\ UNCHANGED mcpVars

\* the content the heuristic is applied to
AnswerContent ==
    IF answer.body.choices # <<>> THEN answer.body.choices[1].message.content
    ELSE answer.body.message.content

ParseToolCall ==
    /\ Idle
    /\ answer.kind = "reply"
    /\ answer.status = "ok" /\ answer.valid
    /\ LET p == parse_json_tool_call_from_content(AnswerContent, offered)
       IN  reply' = Reply("parse", p.exc, NoBody, p.call, <<>>)
    /\ gen' = NoGen
    /\ UNCHANGED <<backend, offered, answer>>
    /\ UNCHANGED mcpVars

ChatStream ==
    /\ Idle
    /\ answer.kind = "stream"
    /\ reply' = Reply("chat_stream", NoExc, NoBody, NoToolCall, <<>>)
    /\ gen' = chat_stream(backend, offered)
    /\ UNCHANGED <<backend, offered, answer>>
    /\ UNCHANGED mcpVars

GenerateStream ==
    /\ Idle
    /\ answer.kind = "stream"
    /\ reply' = Reply("generate_stream", NoExc, NoBody, NoToolCall, <<>>)
    /\ gen' = generate_stream
    /\ UNCHANGED <<backend, offered, answer>>
    /\ UNCHANGED mcpVars

StreamNext ==
    /\ gen.pc \in {"created", "suspended"}
    /\ gen' = stream_next(gen, answer)
    /\ UNCHANGED <<backend, offered, answer, reply>>
    /\ UNCHANGED mcpVars

StreamClose ==
    /\ gen.pc \in {"created", "suspended"}
    /\ gen' = stream_close(gen)
    /\ UNCHANGED <<backend, offered, answer, reply>>
    /\ UNCHANGED mcpVars

OllamaNext ==
    \/ Chat \/ ParseToolCall
    \/ ChatStream \/ GenerateStream \/ StreamNext \/ StreamClose

OllamaSpec == OllamaInit /\ [][OllamaNext]_vars

---------------------------------------------------------------------------
(* Vocabulary of the properties *)

IsToolsRequest(q) == q.method \in {"tools/list", "tools/call"}

\* The decoding rule of the protocol: a body that begins with the event marker
\* is decoded from its first data line, any other body as a whole.
Decoded(body) ==
    LET ds == SelectSeq(body, LAMBDA l : l.kind = "data")
        whole == SelectSeq(body, LAMBDA l : l.kind # "blank")
        undecodable == [exc |-> "undecodable", data |-> JsonNumber]
    IN  IF body # <<>> /\ body[1].kind = "event"
        THEN IF ds # <<>> /\ ds[1].payload.valid
             THEN [exc |-> NoExc, data |-> ds[1].payload.value] ELSE undecodable
        ELSE IF Len(whole) = 1 /\ whole[1].kind = "text" /\ whole[1].payload.valid
             THEN [exc |-> NoExc, data |-> whole[1].payload.value] ELSE undecodable

\* a JSON-RPC envelope arrived with a successful status and decodes
Answered(resp) ==
    /\ resp.status = "ok"
    /\ Decoded(resp.body).exc = NoExc
    /\ Decoded(resp.body).data.kind = "object"
Envelope_(resp) == Decoded(resp.body).data

\* the "result" member of an answered response that carries no "error"
ResultOf(resp) ==
    IF "result" \in Envelope_(resp).keys THEN Envelope_(resp).result ELSE EmptyResult
ProtocolSuccess(resp) == Answered(resp) /\ "error" \notin Envelope_(resp).keys
ErrorFlagged(resp) == "isError" \in ResultOf(resp).keys /\ ResultOf(resp).isError
ContentOf(resp) ==
    IF "content" \in ResultOf(resp).keys THEN ResultOf(resp).content ELSE <<>>

\* a handshake answer that carries no error object
ValidHandshake(hr) == ProtocolSuccess(hr)
\* a handshake exchange that hit a transport failure, an HTTP error status, an
\* undecodable body, an SSE frame without a data line or an error object
FailedHandshake(hr) ==
    \/ hr.status \in {"transport_error", "http_error"}
    \/ hr.status = "ok" /\ Decoded(hr.body).exc # NoExc
    \/ Answered(hr) /\ "error" \in Envelope_(hr).keys

\* the call returned a structured result
Structured(d) ==
    /\ "success" \in d.keys
    /\ d.success => "result" \in d.keys
    /\ ~d.success => "error" \in d.keys

---------------------------------------------------------------------------
(* C1 *)

\* C1: a tools/list or tools/call request is sent only once a handshake has
\* succeeded: list_tools() and call_tool() on an Uninitialized adapter begin
\* with the handshake request, and when that handshake fails (the adapter is
\* still Uninitialized afterwards) they send no tools request at all.
C1_ToolsRequestOnlyAfterHandshake ==
    [][ /\ \A k \in 1..Len(last'.reqs) :
              IsToolsRequest(last'.reqs[k]) =>
                  /\ initialized'
                  /\ transitions' >= 1
                  /\ ~initialized => k = 2
        /\ (~initialized /\ last'.op \in {"list_tools", "call_tool"}) =>
              /\ last'.reqs # <<>>
              /\ last'.reqs[1].method = "initialize"
              /\ ~initialized' => Len(last'.reqs) = 1
      ]_vars

\* a list_tools() call on an Uninitialized adapter that handshook and then listed
C1_Witness ==
    /\ last.op = "list_tools"
    /\ Len(last.reqs) = 2
    /\ last.reqs[1].method = "initialize"
    /\ last.reqs[2].method = "tools/list"
    /\ initialized

---------------------------------------------------------------------------
(* C2 *)

\* C2: initialize() on an Uninitialized adapter whose handshake answer carries
\* no error object returns true and makes the adapter Initialized; initialize()
\* on an Initialized adapter returns true, sends nothing and changes neither
\* the flag nor the session identifier; the adapter becomes Initialized at most
\* once.
C2_InitializeIdempotent ==
    [][ /\ (last'.op = "initialize" /\ ~initialized /\ ValidHandshake(last'.hr)) =>
              /\ last'.exc = NoExc /\ last'.ok
              /\ initialized'
              /\ transitions' = 1
        /\ (last'.op = "initialize" /\ initialized) =>
              /\ last'.exc = NoExc /\ last'.ok
              /\ last'.reqs = <<>>
              /\ initialized'
              /\ session_id' = session_id
              /\ transitions' = transitions
        /\ transitions' <= 1
      ]_vars

\* initialize() was called again on an adapter that a server-named session
\* had already made Initialized
C2_Witness ==
    /\ last.op = "initialize"
    /\ last.reqs = <<>>
    /\ last.ok
    /\ initialized
    /\ session_id \in ServerSids
    /\ transitions = 1

---------------------------------------------------------------------------
(* C3 *)

\* C3: call_tool() never raises: whatever the handshake and the tools/call
\* exchange did, it returns a dict with a success flag and a result text or an
\* error message.
C3_CallToolNeverRaises ==
    last.op = "call_tool" => last.exc = NoExc /\ Structured(last.result)

---------------------------------------------------------------------------
(* C4 *)

\* C4: initialize() never raises and, when the handshake exchange fails
\* (transport failure, HTTP error status, undecodable body, SSE frame without a
\* data line, decoded JSON with an error object), returns false after a single
\* handshake request and leaves the adapter Uninitialized.
C4_FailedHandshakeReturnsFalse ==
    (last.op = "initialize" /\ last.hr # NoResponse /\ FailedHandshake(last.hr)) =>
        /\ last.exc = NoExc
        /\ ~last.ok
        /\ ~initialized
        /\ Len(last.reqs) = 1

---------------------------------------------------------------------------
(* C5 *)

\* C5: an initialize() call that returns false leaves the session identifier
\* as it was before the call.
C5_FailedHandshakeKeepsSessionId ==
    [][ (last'.op = "initialize" /\ ~last'.ok) => session_id' = session_id ]_vars

---------------------------------------------------------------------------
(* C6, C7 *)

\* the tools of a tools/list answer, in the order received
ReceivedTools(resp) ==
    LET items == IF "tools" \in ResultOf(resp).keys THEN ResultOf(resp).tools ELSE <<>>
    IN  [k \in 1..Len(items) |->
            MCPTool(items[k].name, items[k].description, items[k].inputSchema)]

\* C6: after a successful list_tools() the keys of the catalog are exactly the
\* tool names of that response, and the returned list holds the tools of the
\* response in the order received.
C6_ListToolsReplacesCatalog ==
    (last.op = "list_tools" /\ last.exc = NoExc) =>
        /\ dict_keys(tools) = {last.list[k].name : k \in 1..Len(last.list)}
        /\ last.list = ReceivedTools(last.r)

\* C7: after list_tools() returns, the returned list is as long as the catalog
\* has entries, and every entry of the catalog is stored under its own name.
C7_ListLengthEqualsCatalogSize ==
    (last.op = "list_tools" /\ last.exc = NoExc) =>
        /\ Len(last.list) = Len(tools)
        /\ \A k \in 1..Len(tools) : tools[k].key = tools[k].value.name

---------------------------------------------------------------------------
(* C8, C9 *)

\* C8: call_tool() on a protocol-successful response whose result has isError
\* true returns a failure whose error message is the text of the first content
\* item, whatever the content list, and never reports success.
C8_ErrorFlagReturnsFirstText ==
    (last.op = "call_tool" /\ ProtocolSuccess(last.r) /\ ErrorFlagged(last.r)) =>
        /\ last.exc = NoExc
        /\ Structured(last.result)
        /\ ~last.result.success
        /\ (ContentOf(last.r) # <<>> /\ "text" \in ContentOf(last.r)[1].keys) =>
              last.result.error = ContentOf(last.r)[1].text

\* C9 as worded, for the calls that return: call_tool() on a response whose
\* content list is empty or absent returns success with the fixed marker, and
\* on non-empty content with no error flagged success with the first item's text.
C9_EmptyContentIsSuccess ==
    (last.op = "call_tool" /\ ProtocolSuccess(last.r) /\ last.exc = NoExc) =>
        /\ ContentOf(last.r) = <<>> => last.result = CallSuccess(NoOutput)
        /\ (ContentOf(last.r) # <<>> /\ ~ErrorFlagged(last.r)
              /\ "text" \in ContentOf(last.r)[1].keys) =>
              last.result = CallSuccess(ContentOf(last.r)[1].text)

\* C9 amended: call_tool() on a protocol-successful response with no error
\* flagged returns success: with the fixed marker when the content list is
\* empty or absent, otherwise with the first content item's text (the empty
\* string when that item has no text).
C9_UnflaggedEmptyContentIsSuccess ==
    (last.op = "call_tool" /\ ProtocolSuccess(last.r) /\ ~ErrorFlagged(last.r)) =>
        /\ last.exc = NoExc
        /\ ContentOf(last.r) = <<>> => last.result = CallSuccess(NoOutput)
        /\ ContentOf(last.r) # <<>> =>
              last.result = CallSuccess(IF "text" \in ContentOf(last.r)[1].keys
                                        THEN ContentOf(last.r)[1].text ELSE "")

\* a tools/call answer with "content": [] and no error flag came back as success
C9_Witness ==
    /\ last.op = "call_tool"
    /\ ProtocolSuccess(last.r)
    /\ "content" \in ResultOf(last.r).keys
    /\ ResultOf(last.r).content = <<>>
    /\ ~ErrorFlagged(last.r)
    /\ last.result = CallSuccess(NoOutput)

---------------------------------------------------------------------------
(* C10 *)

\* "event: message\ndata: <json>", with or without the newline that ends the frame
SingleFrame(body) ==
    /\ Len(body) \in {2, 3}
    /\ body[1].kind = "event"
    /\ body[2].kind = "data"
    /\ Len(body) = 3 => body[3].kind = "blank"
\* the same response with the bare body <json>
Bare(resp) == [resp EXCEPT !.body = PlainBody(resp.body[2].payload)]

\* the step taken has the outcome o
StepIs(o) ==
    o = [initialized |-> initialized', session_id |-> session_id', tools |-> tools',
         exc |-> last'.exc, ok |-> last'.ok, list |-> last'.list,
         result |-> last'.result, reqs |-> last'.reqs]

\* C10: a call of initialize(), list_tools() or call_tool() answered with the
\* SSE frame of a JSON text returns what it would have returned, and leaves the
\* adapter as it would have left it, had the answer been the bare JSON text.
C10_SSEFramingTransparent ==
    [][ /\ (last'.op = "initialize" /\ SingleFrame(last'.hr.body)) =>
              StepIs(initialize(Self, Bare(last'.hr)))
        /\ (last'.op = "list_tools" /\ SingleFrame(last'.r.body)) =>
              StepIs(list_tools(Self, last'.hr, Bare(last'.r)))
        /\ (last'.op = "call_tool" /\ SingleFrame(last'.r.body)) =>
              StepIs(call_tool(Self, last'.hr, Bare(last'.r), last'.name))
      ]_vars

\* an SSE-framed tools/list answer filled the catalog
C10_Witness ==
    /\ last.op = "list_tools"
    /\ SingleFrame(last.r.body)
    /\ last.exc = NoExc
    /\ Len(last.list) = 2
    /\ Len(tools) = 2

---------------------------------------------------------------------------
(* C13 *)

\* C13: list_tools() fails loudly: when its lazy handshake fails (the adapter
\* is still Uninitialized after the call), when the tools/list exchange hits a
\* transport failure or an HTTP error status, or when the decoded answer
\* carries a JSON-RPC error object, the call raises and returns no tool list.
C13_ListToolsFailsLoudly ==
    (/\ last.op = "list_tools"
     /\ \/ ~initialized
        \/ last.r.status \in {"transport_error", "http_error"}
        \/ Answered(last.r) /\ "error" \in Envelope_(last.r).keys)
    => (last.exc # NoExc /\ last.list = <<>>)

\* list_tools() on an Initialized adapter was answered with an error object
\* and raised
C13_Witness ==
    /\ last.op = "list_tools"
    /\ initialized
    /\ Answered(last.r)
    /\ "error" \in Envelope_(last.r).keys
    /\ last.exc = "Exception"

---------------------------------------------------------------------------
(* C14 *)

\* the health answer came with a 2xx status
HealthSuccess(resp) == resp.status \in {"ok", "other_2xx"}
\* its body is JSON text
HealthIsJson(resp) ==
    /\ Len(resp.body) = 1
    /\ resp.body[1].kind = "text"
    /\ resp.body[1].payload.valid
HealthValue(resp) == resp.body[1].payload.value
\* a JSON object whose status is "healthy" or "ok"
HealthRecognised(resp) ==
    /\ HealthIsJson(resp)
    /\ HealthValue(resp).kind = "object"
    /\ "status" \in HealthValue(resp).keys
    /\ HealthValue(resp).status \in {"healthy", "ok"}

\* C14: health_check() never raises; it returns true only for a successful HTTP
\* status whose body is JSON with status "healthy" or "ok" or is not JSON at
\* all; a transport failure, an HTTP error status, or a JSON body of an
\* unrecognised shape (unknown status, no status, not an object) yields false.
C14_HealthCheckRecognisedOnly ==
    last.op = "health_check" =>
        /\ last.exc = NoExc
        /\ last.ok => /\ HealthSuccess(last.r)
                      /\ HealthRecognised(last.r) \/ ~HealthIsJson(last.r)
        /\ (~HealthSuccess(last.r) \/ (HealthIsJson(last.r) /\ ~HealthRecognised(last.r)))
              => ~last.ok

---------------------------------------------------------------------------
(* C15 *)

FormattingHelpers ==
    {"get_tool_descriptions", "format_tools_for_prompt", "format_tools_for_ollama"}

\* C15: each of get_tool_descriptions(), format_tools_for_prompt() and
\* format_tools_for_ollama() fetches the catalog (list_tools() sends at least
\* one request) when the cached catalog is empty; on a non-empty catalog it
\* sends no request and leaves catalog, session identifier and flag unchanged.
C15_HelpersFetchWhenEmpty ==
    [][ last'.op \in FormattingHelpers =>
            /\ tools = <<>> => last'.reqs # <<>>
            /\ tools # <<>> =>
                  /\ last'.reqs = <<>>
                  /\ tools' = tools
                  /\ session_id' = session_id
                  /\ initialized' = initialized
      ]_vars

---------------------------------------------------------------------------
(* C16 *)

\* an SSE frame that holds several data lines
ManyData(body) ==
    /\ body # <<>>
    /\ body[1].kind = "event"
    /\ Len(SelectSeq(body, LAMBDA l : l.kind = "data")) >= 2
\* the same response with the frame cut after its first data line
FirstDataOnly(resp) ==
    [resp EXCEPT !.body = <<EventLine, SelectSeq(resp.body, LAMBDA l : l.kind = "data")[1]>>]

\* C16: initialize(), list_tools() and call_tool() decode an SSE frame from its
\* first data line only: answered with a frame of several data lines, the call
\* returns what it would have returned, and leaves the adapter as it would have
\* left it, had the frame ended after its first data line.
C16_FirstDataLineOnly ==
    [][ /\ (last'.op = "initialize" /\ ManyData(last'.hr.body)) =>
              StepIs(initialize(Self, FirstDataOnly(last'.hr)))
        /\ (last'.op = "list_tools" /\ ManyData(last'.r.body)) =>
              StepIs(list_tools(Self, last'.hr, FirstDataOnly(last'.r)))
        /\ (last'.op = "call_tool" /\ ManyData(last'.r.body)) =>
              StepIs(call_tool(Self, last'.hr, FirstDataOnly(last'.r), last'.name))
      ]_vars

---------------------------------------------------------------------------
(* Vocabulary of the properties of the LLM client *)

\* the message of the first choice of an OpenAI-compatible answer
FirstChoice == answer.body.choices[1].message
\* the names of the tools offered
OfferedNames == {offered[k].function.name : k \in 1..Len(offered)}
\* what the recovery heuristic makes of a content against the tools offered
Recovered(c) == parse_json_tool_call_from_content(c, offered).call
\* chat() returned
ChatReturned == reply.op = "chat" /\ reply.exc = NoExc

---------------------------------------------------------------------------
(* C11 *)

\* C11: under the vllm dialect a non-streaming chat() whose first choice has no
\* structured tool_calls, with tools offered and JSON-object content that the
\* recovery heuristic matches to an offered tool, returns a message with empty
\* content and exactly one tool call; under the ollama dialect chat() returns
\* the decoded body of the backend as it is.
C11_RecoveryOnlyUnderVllm ==
    ChatReturned =>
        /\ (/\ backend = "vllm"
            /\ FirstChoice.tool_calls = <<>>
            /\ offered # <<>>
            /\ FirstChoice.content.kind = "object"
            /\ Recovered(FirstChoice.content) # NoToolCall
            /\ Recovered(FirstChoice.content).function.name \in OfferedNames)
           => /\ reply.body.message.content = EmptyContent
              /\ Len(reply.body.message.tool_calls) = 1
        /\ backend = "ollama" => reply.body = answer.body

\* a vllm chat() turned JSON content into the single tool call of its reply
C11_Witness ==
    /\ ChatReturned
    /\ backend = "vllm"
    /\ FirstChoice.tool_calls = <<>>
    /\ FirstChoice.content.kind = "object"
    /\ reply.body.message.content = EmptyContent
    /\ Len(reply.body.message.tool_calls) = 1

\* an ollama chat() returned JSON content that the heuristic would have matched
C11_WitnessNative ==
    /\ ChatReturned
    /\ backend = "ollama"
    /\ answer.body.message.tool_calls = <<>>
    /\ Recovered(answer.body.message.content) # NoToolCall
    /\ reply.body = answer.body

---------------------------------------------------------------------------
(* C12 *)

\* the chat requests sent so far by the last call or by its generator
ChatRequests ==
    (IF reply.op = "chat" THEN {reply.reqs[k] : k \in 1..Len(reply.reqs)} ELSE {})
    \cup (IF gen.kind = "chat" THEN {gen.sent[k] : k \in 1..Len(gen.sent)} ELSE {})
FlatKeys == {"model", "messages", "temperature", "max_tokens", "top_p", "stream"}

\* C12: every chat request under the vllm dialect, streaming or not, is POSTed
\* to /v1/chat/completions with the flat body {model, messages, temperature,
\* max_tokens, top_p, stream} and tools when offered; every chat request under
\* the ollama dialect is POSTed to /api/chat.
C12_ChatEndpointPerDialect ==
    \A rq \in ChatRequests :
        /\ rq.method = "POST"
        /\ backend = "vllm" =>
              /\ rq.path = "/v1/chat/completions"
              /\ rq.payload.keys \ {"tools"} = FlatKeys
              /\ "tools" \in rq.payload.keys <=> offered # <<>>
        /\ backend = "ollama" => rq.path = "/api/chat"

---------------------------------------------------------------------------
(* C17 *)

\* the heuristic was applied to the JSON text of an object, with tools offered
ParsedObject == reply.op = "parse" /\ AnswerContent.kind = "object" /\ offered # <<>>
TheObject == AnswerContent.object
\* the object carries a tool name under a tool-name key and an arguments key
ExplicitFormat(o) ==
    /\ \E k \in NameKeys : k \in o.keys /\ o[k].type = "str" /\ o[k].text # ""
    /\ o.keys \cap ArgKeys # {}
\* the payload as the arguments of a call: a string as it is, else its JSON text
AsArguments(v) ==
    IF v.type = "str" THEN v ELSE [type |-> "str", text |-> "json", keys |-> v.keys]

\* C17: for a parsed JSON object that carries a tool name under tool, name or
\* function together with an arguments or params key, against any list of
\* offered tools, the heuristic returns a call whose name is that tool name and
\* whose arguments are that payload, a string unchanged and any other value as
\* its JSON text; the overlap with the tools' parameters plays no part.
C17_ExplicitFormatAdopted ==
    (ParsedObject /\ ExplicitFormat(TheObject)) =>
        /\ reply.exc = NoExc
        /\ reply.call # NoToolCall
        /\ reply.call.function.name \in
              {TheObject[k] : k \in {j \in NameKeys \cap TheObject.keys : truthy(TheObject[j])}}
        /\ reply.call.function.arguments \in
              {AsArguments(TheObject[k]) : k \in ArgKeys \cap TheObject.keys}

---------------------------------------------------------------------------
(* C18 *)

\* the number of keys of the object among the parameters of the k-th tool offered
Score(k) == Cardinality(TheObject.keys \cap offered[k].function.parameters.properties)
\* the first tool, in offer order, whose score no other tool exceeds
Winner == CHOOSE i \in 1..Len(offered) :
              /\ \A k \in 1..Len(offered) : Score(k) <= Score(i)
              /\ \A k \in 1..(i - 1) : Score(k) < Score(i)
\* the object does not carry a tool-name key together with an arguments key
InferenceInput ==
    /\ reply.op = "parse"
    /\ AnswerContent.kind = "object"
    /\ offered # <<>>
    /\ ~(TheObject.keys \cap NameKeys # {} /\ TheObject.keys \cap ArgKeys # {})

\* C18: for a parsed object that is not in explicit format the heuristic
\* returns a call to the offered tool with the highest positive number of the
\* object's keys among its parameters, the first such tool in offer order on a
\* tie, with the JSON text of the whole object as arguments; it returns none
\* when no offered tool shares a key with the object.
C18_InferenceByOverlap ==
    InferenceInput =>
        /\ reply.exc = NoExc
        /\ reply.call =
              IF \A k \in 1..Len(offered) : Score(k) = 0 THEN NoToolCall
              ELSE ToolCall(offered[Winner].function.name,
                            [type |-> "str", text |-> "json", keys |-> TheObject.keys])

\* two offered tools tied on a positive score and the first one was chosen
C18_Witness ==
    /\ InferenceInput
    /\ Len(offered) = 2
    /\ Score(1) = Score(2)
    /\ Score(1) > 0
    /\ offered[1] # offered[2]
    /\ reply.call # NoToolCall
    /\ reply.call.function.name = offered[1].function.name

---------------------------------------------------------------------------
(* C19 *)

\* the content is empty, is not in braces once trimmed, or is not JSON
Unusable(c) ==
    \/ c.kind \in {"none", "empty"}
    \/ c.kind \in {"blank", "prose", "open_brace"}
    \/ c.kind = "braced_garbage"

\* C19: the heuristic is a probe that does not raise: for a content that is
\* empty, that is not enclosed in braces once trimmed or that does not parse as
\* JSON, whatever tools are offered, and for any content when no tools are
\* offered, it returns none.
C19_ProbeNeverRaises ==
    (reply.op = "parse" /\ (Unusable(AnswerContent) \/ offered = <<>>)) =>
        /\ reply.exc = NoExc
        /\ reply.call = NoToolCall

\* text in braces that is not JSON was probed against offered tools
C19_Witness ==
    /\ reply.op = "parse"
    /\ AnswerContent.kind = "braced_garbage"
    /\ offered # <<>>
    /\ reply.exc = NoExc
    /\ reply.call = NoToolCall

---------------------------------------------------------------------------
(* C20 *)

\* a non-empty line that is JSON text
Parsable(line) == line \in {"chunk1", "chunk2"}
\* the chunks of a sequence of such lines
ChunksOf(ls) == [i \in 1..Len(ls) |-> [decoded |-> ls[i]]]
\* the number of lines the generator has read
LinesRead == Len(answer.lines) - Len(gen.rest)

\* C20: a streaming chat or generate call yields the chunks of the non-empty
\* lines that parse as JSON, in the order of the lines, one chunk per line: at
\* every point the chunks yielded are those of the parsable lines read so far,
\* a line that does not parse is passed over, and the sequence finishes only
\* when every line of the connection has been read.
C20_StreamYieldsParsableLines ==
    gen.sent # <<>> =>
        /\ gen.rest = SubSeq(answer.lines, LinesRead + 1, Len(answer.lines))
        /\ gen.yielded = ChunksOf(SelectSeq(SubSeq(answer.lines, 1, LinesRead), Parsable))
        /\ gen.pc = "suspended" => (LinesRead >= 1 /\ Parsable(answer.lines[LinesRead]))
        /\ gen.pc = "finished" =>
              /\ gen.rest = <<>>
              /\ gen.yielded = ChunksOf(SelectSeq(answer.lines, Parsable))

\* a stream finished after yielding a chunk that followed a line that is not JSON
C20_Witness ==
    /\ gen.pc = "finished"
    /\ \E i, j \in 1..Len(answer.lines) :
          /\ i < j
          /\ answer.lines[i] = "garbage"
          /\ Parsable(answer.lines[j])
    /\ gen.yielded = ChunksOf(SelectSeq(answer.lines, Parsable))

---------------------------------------------------------------------------
(* C21 *)

\* C21: a streaming call opens at most one connection, and none before the
\* generator is first resumed; the connection is open only while the generator
\* is suspended at a yield, so it has been released once the sequence is
\* exhausted, once the consumer has closed it early, and once an HTTP error
\* status or a read error has ended it.
C21_StreamConnectionReleased ==
    /\ Len(gen.sent) <= 1
    /\ gen.pc = "created" => (gen.sent = <<>> /\ gen.conn = "none")
    /\ gen.conn = "open" => (gen.pc = "suspended" /\ Len(gen.sent) = 1)
    /\ gen.pc \in {"finished", "raised", "closed"} => gen.conn # "open"
    /\ (gen.pc \in {"finished", "raised", "closed"} /\ gen.sent # <<>>
           /\ answer.status # "transport_error") => gen.conn = "closed"

\* the consumer closed a stream that still had lines to read, and the
\* connection was released
C21_Witness ==
    /\ gen.pc = "closed"
    /\ gen.yielded # <<>>
    /\ gen.rest # <<>>
    /\ Len(gen.sent) = 1
    /\ gen.conn = "closed"

---------------------------------------------------------------------------
(* C22 *)

\* C22: the handshake request carries no mcp-session-id header; once the
\* adapter is Initialized, no operation (initialize, list_tools, call_tool,
\* health_check, the formatting helpers, failed requests included) resets the
\* flag or changes the session identifier; and every tools/list and tools/call
\* request carries the identifier the adapter holds, which is therefore the
\* one it held when the handshake succeeded.
C22_SessionContinuity ==
    [][ /\ \A k \in 1..Len(last'.reqs) :
              /\ last'.reqs[k].method = "initialize" => last'.reqs[k].sid = NoSid
              /\ IsToolsRequest(last'.reqs[k]) => last'.reqs[k].sid = session_id'
        /\ initialized => (initialized' /\ session_id' = session_id)
      ]_vars

\* call_tool() on an adapter Initialized earlier under a server-named session
\* sent its request under that session
C22_Witness ==
    /\ last.op = "call_tool"
    /\ last.hr = NoResponse
    /\ initialized
    /\ session_id \in ServerSids
    /\ Len(last.reqs) = 1
    /\ last.reqs[1].method = "tools/call"
    /\ last.reqs[1].sid = session_id

---------------------------------------------------------------------------
(* C23 *)

\* C23: every tool call the recovery heuristic returns, and so every tool call
\* a vllm chat() recovers from the content of a reply without structured
\* tool_calls, names one of the tools offered to that call; content naming a
\* tool that was not offered yields no call.
C23_RecoveredCallNamesOfferedTool ==
    /\ (reply.op = "parse" /\ reply.call # NoToolCall) =>
          reply.call.function.name \in OfferedNames
    /\ (ChatReturned /\ backend = "vllm" /\ FirstChoice.tool_calls = <<>>) =>
          \A k \in 1..Len(reply.body.message.tool_calls) :
              reply.body.message.tool_calls[k].function.name \in OfferedNames

---------------------------------------------------------------------------
(* C24 *)

\* C24: a list_tools() call that raises leaves the cached catalog exactly as it
\* was before the call, also when the failure is a malformed tool entry (one
\* without name, description or inputSchema) that follows well-formed entries
\* of the same response.
C24_FailedListKeepsCatalog ==
    [][ (last'.op = "list_tools" /\ last'.exc # NoExc) => tools' = tools ]_vars

====
